---- MODULE Spec2Model ----
(***************************************************************************)
(* A model of betareduce._core: one call of create(), which stages a pip   *)
(* install in a directory, zips the staged files and adds a generated      *)
(* handler module; and of betareduce._cli: run(), which parses a command   *)
(* line, opens the output file and calls create().                         *)
(* Python strings that the code inspects (paths, FQPNs, command line       *)
(* tokens)                                                                 *)
(* are sequences of one-character strings, so that startswith, endswith,   *)
(* replace, rpartition, os.path.join and os.path.normpath are computed.    *)
(***************************************************************************)
EXTENDS Integers, Sequences, FiniteSets, TLC

(***************************************************************************)
(* Bounds of the model.                                                    *)
(***************************************************************************)
MaxFqpnLen == 5
MaxFiles == 2

(***************************************************************************)
(* Python str operations, as the code uses them.                           *)
(***************************************************************************)
\* None where a path is expected: no path is this one-element sequence
None == << "None" >>

\* str.startswith(p)
StartsWith(s, p) == Len(p) <= Len(s) /\ SubSeq(s, 1, Len(p)) = p

\* str.endswith(p)
EndsWith(s, p) == Len(p) <= Len(s) /\ SubSeq(s, Len(s) - Len(p) + 1, Len(s)) = p

\* str.endswith(tuple): true when some member of the tuple is a suffix
EndsWithAny(s, ps) == \E p \in ps : EndsWith(s, p)

\* str.find(sub): lowest index (1-based) of sub in s, 0 when absent
Find(s, sub) ==
    LET hits == {i \in 1..(Len(s) - Len(sub) + 1) : SubSeq(s, i, i + Len(sub) - 1) = sub}
    IN  IF hits = {} THEN 0 ELSE CHOOSE i \in hits : \A j \in hits : i <= j

\* str.replace(old, new, 1): the first occurrence of old is replaced
ReplaceFirst(s, old, new) ==
    LET i == Find(s, old)
    IN  IF i = 0 THEN s
        ELSE SubSeq(s, 1, i - 1) \o new \o SubSeq(s, i + Len(old), Len(s))

\* str.replace(old, new) for one-character old and new: every occurrence
ReplaceChar(s, old, new) == [i \in 1..Len(s) |-> IF s[i] = old THEN new ELSE s[i]]

\* str.rfind(c): highest index (1-based) of the character c, 0 when absent
RFind(s, c) ==
    LET hits == {i \in 1..Len(s) : s[i] = c}
    IN  IF hits = {} THEN 0 ELSE CHOOSE i \in hits : \A j \in hits : j <= i

\* str.rpartition(c): <<head, separator, tail>> around the last c
RPartition(s, c) ==
    LET i == RFind(s, c)
    IN  IF i = 0 THEN << <<>>, <<>>, s >>
        ELSE << SubSeq(s, 1, i - 1), <<c>>, SubSeq(s, i + 1, Len(s)) >>

\* str.split(c): the components between occurrences of c
RECURSIVE Split(_, _)
Split(s, c) ==
    LET i == Find(s, <<c>>)
    IN  IF i = 0 THEN << s >>
        ELSE << SubSeq(s, 1, i - 1) >> \o Split(SubSeq(s, i + 1, Len(s)), c)

\* c.join(comps)
RECURSIVE Join(_, _)
Join(comps, c) ==
    IF comps = <<>> THEN <<>>
    ELSE IF Len(comps) = 1 THEN comps[1]
    ELSE comps[1] \o <<c>> \o Join(Tail(comps), c)

\* os.path.join(a, b) on POSIX
PathJoin(a, b) ==
    IF StartsWith(b, <<"/">>) THEN b
    ELSE IF a = <<>> \/ EndsWith(a, <<"/">>) THEN a \o b
    ELSE a \o <<"/">> \o b

\* the component loop of posixpath.normpath
RECURSIVE NormComps(_, _, _)
NormComps(comps, acc, initial_slashes) ==
    IF comps = <<>> THEN acc
    ELSE LET comp == Head(comps)
             rest == Tail(comps)
         IN  IF comp = <<>> \/ comp = <<".">> THEN NormComps(rest, acc, initial_slashes)
             ELSE IF \/ comp # <<".", ".">>
                     \/ (initial_slashes = 0 /\ acc = <<>>)
                     \/ (acc # <<>> /\ acc[Len(acc)] = <<".", ".">>)
                  THEN NormComps(rest, Append(acc, comp), initial_slashes)
             ELSE IF acc # <<>>
                  THEN NormComps(rest, SubSeq(acc, 1, Len(acc) - 1), initial_slashes)
             ELSE NormComps(rest, acc, initial_slashes)

\* os.path.normpath(path) on POSIX
normpath(path) ==
    IF path = <<>> THEN <<".">>
    ELSE LET initial_slashes ==
                 IF ~StartsWith(path, <<"/">>) THEN 0
                 ELSE IF StartsWith(path, <<"/", "/">>) /\ ~StartsWith(path, <<"/", "/", "/">>)
                      THEN 2 ELSE 1
             joined == Join(NormComps(Split(path, "/"), <<>>, initial_slashes), "/")
             result == [i \in 1..initial_slashes |-> "/"] \o joined
         IN  IF result = <<>> THEN <<".">> ELSE result

(***************************************************************************)
(* Inputs of one build.                                                    *)
(***************************************************************************)
\* every string over chars of length at most n
Strs(chars, n) == UNION {[1..k -> chars] : k \in 0..n}

\* the FQPN argument: a dotted name, well formed or not
FqpnChars == {"a", "."}
Fqpns == Strs(FqpnChars, MaxFqpnLen)

\* the root argument: None, or a staging directory of the caller
CallerRoots == { <<"/", "r">>, <<"r", "/">>, <<".", "/", "r">> }
Roots == {None} \cup CallerRoots

\* the directory tempfile.mkdtemp returns
TempDir == <<"/", "t">>

\* the pip arguments
PipArgs == { <<"req1">>, <<"req1", "req2">> }

\* files the installer may leave under the root: dir is the directory
\* relative to the root ("" for the root itself), name the file name
StagedEntries ==
    { [dir |-> <<>>,    name |-> <<"a", ".", "p", "y">>],
      [dir |-> <<>>,    name |-> <<"s", "o">>],
      [dir |-> <<"s">>, name |-> <<"b", ".", "s", "o">>],
      [dir |-> <<"s">>, name |-> <<"d", ".", "p", "y", "c">>] }

\* what os.walk can report: distinct files, the root's own files first
Walks ==
    { w \in UNION {[1..k -> StagedEntries] : k \in 0..MaxFiles} :
        /\ \A i, j \in 1..Len(w) : i # j => w[i] # w[j]
        /\ \A i, j \in 1..Len(w) : (i < j /\ w[j].dir = <<>>) => w[i].dir = <<>> }

(***************************************************************************)
(* LambdaPackage                                                           *)
(***************************************************************************)
\* imp.get_suffixes() entries of kind C_EXTENSION (CPython 2 on Linux)
BINARY_SUFFIXES == { <<".", "s", "o">>, <<"m", "o", "d", "u", "l", "e", ".", "s", "o">> }

\* LambdaPackage.files: os.path.join(dirpath, filename) for every file os.walk reports
files(pkg_root, w) ==
    [i \in 1..Len(w) |->
        PathJoin(IF w[i].dir = <<>> THEN pkg_root ELSE PathJoin(pkg_root, w[i].dir),
                 w[i].name)]

\* not_extension_module comparing the suffixes without their leading dot
not_extension_module_NoDot(filename) ==
    IF EndsWithAny(filename, {SubSeq(suf, 2, Len(suf)) : suf \in {b \in BINARY_SUFFIXES : b[1] = "."}}
                             \cup BINARY_SUFFIXES)
    THEN FALSE ELSE TRUE

\* LambdaPackage.not_extension_module
not_extension_module(filename) ==
    IF EndsWithAny(filename, BINARY_SUFFIXES) THEN FALSE ELSE TRUE

\* the filter argument of to_zipfile: not_extension_module, or the default lambda
Filter(exclude, filename) ==
    IF exclude THEN not_extension_module(filename) ELSE TRUE

\* LambdaPackage.relativize_path
relativize_path(pkg_root, path) ==
    LET p1 == normpath(path)
        p2 == IF StartsWith(p1, pkg_root) THEN ReplaceFirst(p1, pkg_root, <<>>) ELSE p1
    IN  IF StartsWith(p2, <<"/">>) THEN SubSeq(p2, 2, Len(p2)) ELSE p2

\* split_fqpn without the check for a leading dot
split_fqpn_raises_NoLeadingDot(f) ==
    \/ f = <<>>
    \/ EndsWith(f, <<".">>)
    \/ RPartition(f, ".")[2] = <<>>

\* LambdaPackage.split_fqpn: the condition under which it raises ValueError
split_fqpn_raises(f) ==
    \/ f = <<>>
    \/ EndsWith(f, <<".">>)
    \/ StartsWith(f, <<".">>)
    \/ RPartition(f, ".")[2] = <<>>

\* split_fqpn using str.partition: the split is at the first dot
split_fqpn_FirstDot(f) ==
    LET i == Find(f, <<".">>)
    IN  << SubSeq(f, 1, i - 1), SubSeq(f, i + 1, Len(f)) >>

\* LambdaPackage.split_fqpn: <<module_name, callable_name>>
split_fqpn(f) == << RPartition(f, ".")[1], RPartition(f, ".")[3] >>

\* fqpn_to_lambda_module_name returning the dotted name as it is
fqpn_to_lambda_module_name_Dotted(module_fqpn) == module_fqpn

\* LambdaPackage.fqpn_to_lambda_module_name
fqpn_to_lambda_module_name(module_fqpn) == ReplaceChar(module_fqpn, ".", "_")

\* generate_lambda_handler_module with the two format arguments exchanged
generate_lambda_handler_module_Swapped(module_fqpn, callable_name) ==
    <<"f", "r", "o", "m", " ">> \o callable_name
        \o <<" ", "i", "m", "p", "o", "r", "t", " ">> \o module_fqpn \o <<"\n">>

\* LambdaPackage.generate_lambda_handler_module
generate_lambda_handler_module(module_fqpn, callable_name) ==
    <<"f", "r", "o", "m", " ">> \o module_fqpn
        \o <<" ", "i", "m", "p", "o", "r", "t", " ">> \o callable_name \o <<"\n">>

\* the member name write_lambda_handler_to_fileobj gives the handler module
handler_filename(f) ==
    fqpn_to_lambda_module_name(split_fqpn(f)[1]) \o <<".", "p", "y">>

\* ZipFile.writestr called with a str name builds ZipInfo(name) with
\* external_attr = 0600 << 16
WritestrDefaultMode == 384
ZipInfoForName(name) ==
    [filename |-> name, external_attr |-> WritestrDefaultMode * 65536]

\* the zip_obj.writestr call of write_lambda_handler_to_fileobj
handler_entry(f) ==
    [call |-> "writestr",
     zinfo |-> ZipInfoForName(handler_filename(f)),
     data |-> generate_lambda_handler_module(split_fqpn(f)[1], split_fqpn(f)[2])]

\* the zip_obj.write call of to_zipfile
file_entry(pkg_root, filename) ==
    [call |-> "write", filename |-> filename,
     arcname |-> relativize_path(pkg_root, filename)]

(***************************************************************************)
(* betareduce._cli: the argparse parser.  A command line is a sequence of  *)
(* tokens, each a Python str.  The tokens of the model are the option      *)
(* strings of the parser spelled in full, one string no option matches,    *)
(* and words that do not start with '-'.                                   *)
(***************************************************************************)

\* the option strings of add_argument('-d', '--staging-directory')
STAGING_DIRECTORY ==
    { <<"-", "d">>,
      <<"-", "-", "s", "t", "a", "g", "i", "n", "g", "-",
        "d", "i", "r", "e", "c", "t", "o", "r", "y">> }

\* the option strings of add_argument('-a', '--allow-extensions')
ALLOW_EXTENSIONS ==
    { <<"-", "a">>,
      <<"-", "-", "a", "l", "l", "o", "w", "-",
        "e", "x", "t", "e", "n", "s", "i", "o", "n", "s">> }

\* the option strings of add_argument('-q', '--quiet')
QUIET == { <<"-", "q">>, <<"-", "-", "q", "u", "i", "e", "t">> }

\* argparse takes a token that starts with the prefix character for an option
IsOptionString(tok) == tok # << >> /\ tok[1] = "-"

\* the number of consecutive tokens from position i that are not options
RECURSIVE WordRun(_, _)
WordRun(toks, i) ==
    IF i > Len(toks) \/ IsOptionString(toks[i]) THEN 0 ELSE 1 + WordRun(toks, i + 1)

\* the namespace before any token is consumed: npos counts the positionals
\* (outfile, fqpn, requirements) that have taken their words
EmptyNamespace ==
    [error |-> FALSE, words |-> << >>, npos |-> 0, staging_directory |-> None,
     allow_extensions |-> FALSE, quiet |-> FALSE]

\* ArgumentParser.parse_args from token i on: an option consumes its own
\* argument; a run of words goes to the positionals not yet filled, each of
\* outfile and fqpn taking one word and requirements (nargs='+') the rest of
\* the run; a word left over, an unknown option, an option without its
\* argument or a positional left without a word is an error
RECURSIVE ParseFrom(_, _, _)
ParseFrom(toks, i, st) ==
    IF st.error THEN st
    ELSE IF i > Len(toks) THEN [st EXCEPT !.error = st.npos < 3]
    ELSE IF IsOptionString(toks[i]) THEN
        IF toks[i] \in ALLOW_EXTENSIONS
        THEN ParseFrom(toks, i + 1, [st EXCEPT !.allow_extensions = TRUE])
        ELSE IF toks[i] \in QUIET
        THEN ParseFrom(toks, i + 1, [st EXCEPT !.quiet = TRUE])
        ELSE IF toks[i] \in STAGING_DIRECTORY /\ i + 1 <= Len(toks)
                /\ ~IsOptionString(toks[i + 1])
        THEN ParseFrom(toks, i + 2, [st EXCEPT !.staging_directory = toks[i + 1]])
        ELSE [st EXCEPT !.error = TRUE]
    ELSE LET n == WordRun(toks, i)
             taken == SubSeq(toks, i, i + n - 1)
         IN  IF st.npos = 3 THEN [st EXCEPT !.error = TRUE]
             ELSE IF n >= 3 - st.npos
             THEN ParseFrom(toks, i + n, [st EXCEPT !.words = @ \o taken, !.npos = 3])
             ELSE ParseFrom(toks, i + n, [st EXCEPT !.words = @ \o taken, !.npos = @ + n])

\* parser.parse_args(_argv): error stands for the SystemExit(2) of parser.error
parse_args(toks) ==
    LET st == ParseFrom(toks, 1, EmptyNamespace)
    IN  IF st.error
        THEN [error |-> TRUE, outfile |-> << >>, fqpn |-> << >>, requirements |-> << >>,
              staging_directory |-> None, allow_extensions |-> FALSE, quiet |-> FALSE]
        ELSE [error |-> FALSE, outfile |-> st.words[1], fqpn |-> st.words[2],
              requirements |-> SubSeq(st.words, 3, Len(st.words)),
              staging_directory |-> st.staging_directory,
              allow_extensions |-> st.allow_extensions, quiet |-> st.quiet]

(***************************************************************************)
(* Command lines given to run.                                             *)
(***************************************************************************)

\* the outfile word
OutFile == << "o" >>

\* the fqpn words: a module with a callable, a package path, and a bare name
RunFqpns == { <<"a", ".", "a">>, <<"a", ".", "a", ".", "a">>, <<"a">> }

\* the requirement words: one requirement, or two
RunRequirements == { << <<"x">> >>, << <<"x">>, <<"y">> >> }

\* an option no add_argument call declares
UnknownOption == << "-", "x" >>

\* -d/--staging-directory with its argument, or absent
DOptions ==
    { << >> } \cup { << <<"-", "d">>, r >> : r \in CallerRoots }
              \cup { << d, <<"/", "r">> >> : d \in STAGING_DIRECTORY }

\* -a/--allow-extensions, or absent
AOptions == { << >> } \cup { << a >> : a \in ALLOW_EXTENSIONS }

\* -q/--quiet, or absent
QOptions == { << >> } \cup { << q >> : q \in QUIET }

\* the options of one command line
OptionBlocks == { d \o a \o q : d \in DOptions, a \in AOptions, q \in QOptions }

\* command lines with the options before, between or after the positionals
Layouts(f, rs, opts) ==
    { opts \o << OutFile, f >> \o rs,
      << OutFile >> \o opts \o << f >> \o rs,
      << OutFile, f >> \o opts \o rs,
      << OutFile, f >> \o rs \o opts }

\* command lines the parser rejects: no requirement, an unknown option, an
\* option between two requirements, -d without its argument
Rejected(f, rs) ==
    { << OutFile, f >>,
      << OutFile, f >> \o rs \o << UnknownOption >>,
      << OutFile, f, <<"x">>, <<"-", "a">>, <<"y">> >>,
      << OutFile, f >> \o rs \o << <<"-", "d">> >> }

CommandLines ==
    UNION { Layouts(f, rs, opts) \cup Rejected(f, rs) :
            f \in RunFqpns, rs \in RunRequirements, opts \in OptionBlocks }

(***************************************************************************)
(* State of one call of create(fileobj, pip_args, fqpn, root,              *)
(* exclude_extension_modules), made directly or by run(_argv).             *)
(***************************************************************************)
VARIABLES
    root,                \* the root argument (None when absent)
    fqpn,                \* the fqpn argument
    pip_args,            \* the pip_args argument
    exclude_extension_modules,
    walk,                \* what os.walk reports under the root after install
    pc,                  \* position in create
    root_dir,            \* the path the root manager yielded
    tempdir_exists,      \* whether the directory made by mkdtemp is on disk
    mkdtemp_calls,       \* number of calls of _mkdtemp
    rmtree_calls,        \* arguments of the calls of _rmtree
    rmtree_raised,       \* whether a call of _rmtree raised
    check_output_calls,  \* commands given to _check_output
    init_calls,          \* number of _ZipFile(fileobj, 'w') calls
    zip_calls,           \* write and writestr calls on zip_obj, in order
    idx,                 \* position of the loop over self.files()
    exc,                 \* the exception propagating out of the with body
    outcome,             \* what the caller of create gets
    log,                 \* records given to logger.info
    split_result,        \* what split_fqpn returned to write_lambda_handler_to_fileobj
    argv,                \* run's _argv: the command line tokens (empty when create is called directly)
    run_pc,              \* position in run ("api" when create is called directly)
    ns,                  \* what parser.parse_args returned, in a one-element sequence
    log_level,           \* the level run gave logging.basicConfig
    open_calls,          \* arguments of the calls of _open
    fileobj,             \* state of the output file run opened
    create_calls,        \* arguments of the calls of _create
    zip_closed,          \* whether the ZipFile was closed: no, yes, or failed
    run_outcome          \* what the caller of run gets

vars == << root, fqpn, pip_args, exclude_extension_modules, walk, pc, root_dir,
           tempdir_exists, mkdtemp_calls, rmtree_calls, rmtree_raised,
           check_output_calls,
           init_calls, zip_calls, idx, exc, outcome, log,
           split_result,
           argv,
           run_pc,
           ns,
           log_level,
           open_calls,
           fileobj,
           create_calls,
           zip_closed,
           run_outcome >>

args == << root, fqpn, pip_args, exclude_extension_modules, walk >>

\* create called directly with its arguments
InitCreate ==
    /\ root \in Roots
    /\ fqpn \in Fqpns
    /\ pip_args \in PipArgs
    /\ exclude_extension_modules \in BOOLEAN
    /\ walk \in Walks
    /\ pc = "create"
    /\ argv = << >>
    /\ run_pc = "api"

\* run called with a command line: create's parameters are not bound yet
InitRun ==
    /\ argv \in CommandLines
    /\ run_pc = "parse"
    /\ walk \in Walks
    /\ root = None
    /\ fqpn = << >>
    /\ pip_args = << >>
    /\ exclude_extension_modules = TRUE
    /\ pc = "idle"

Init ==
    /\ InitCreate \/ InitRun
    /\ root_dir = None
    /\ tempdir_exists = FALSE
    /\ mkdtemp_calls = 0
    /\ rmtree_calls = <<>>
    /\ rmtree_raised = FALSE
    /\ check_output_calls = <<>>
    /\ init_calls = 0
    /\ zip_calls = <<>>
    /\ idx = 0
    /\ exc = "none"
    /\ outcome = "pending"
    /\ log = <<>>
    /\ split_result = << >>
    /\ ns = << >>
    /\ log_level = "unset"
    /\ open_calls = << >>
    /\ fileobj = "unopened"
    /\ create_calls = << >>
    /\ zip_closed = "no"
    /\ run_outcome = "pending"

Info(msg, a) == [msg |-> msg, args |-> a]

(***************************************************************************)
(* automatic_tempdir and passthrough: entering the with statement          *)
(***************************************************************************)
\* automatic_tempdir up to its yield
AutomaticTempdirEnter ==
    /\ pc = "create"
    /\ root = None
    /\ mkdtemp_calls' = mkdtemp_calls + 1
    /\ tempdir_exists' = TRUE
    /\ log' = Append(log, Info("creating temporary directory %r", <<TempDir>>))
    /\ root_dir' = TempDir
    /\ pc' = "install"
    /\ UNCHANGED << args, rmtree_calls, rmtree_raised, check_output_calls,
                    init_calls, zip_calls, idx, exc, outcome, split_result,
                    argv, run_pc, ns, log_level, open_calls, fileobj,
                    create_calls, zip_closed, run_outcome >>

\* _mkdtemp raises: nothing was entered, the error leaves create
MkdtempFails ==
    /\ pc = "create"
    /\ root = None
    /\ mkdtemp_calls' = mkdtemp_calls + 1
    /\ outcome' = "OSError(mkdtemp)"
    /\ pc' = "done"
    /\ UNCHANGED << args, root_dir, tempdir_exists, rmtree_calls,
                    rmtree_raised, check_output_calls, init_calls, zip_calls,
                    idx, exc, log, split_result, argv, run_pc, ns, log_level,
                    open_calls, fileobj, create_calls, zip_closed,
                    run_outcome >>

\* passthrough yielding the normalised path instead of the path it was given
PassthroughEnter_Normalized ==
    /\ pc = "create"
    /\ root # None
    /\ root_dir' = normpath(root)
    /\ pc' = "install"
    /\ UNCHANGED << args, tempdir_exists, mkdtemp_calls, rmtree_calls,
                    rmtree_raised, check_output_calls, init_calls, zip_calls,
                    idx, exc, outcome, log, split_result, argv, run_pc, ns,
                    log_level, open_calls, fileobj, create_calls, zip_closed,
                    run_outcome >>

\* passthrough up to its yield
PassthroughEnter ==
    /\ pc = "create"
    /\ root # None
    /\ root_dir' = root
    /\ pc' = "install"
    /\ UNCHANGED << args, tempdir_exists, mkdtemp_calls, rmtree_calls,
                    rmtree_raised, check_output_calls, init_calls, zip_calls,
                    idx, exc, outcome, log, split_result, argv, run_pc, ns,
                    log_level, open_calls, fileobj, create_calls, zip_closed,
                    run_outcome >>

(***************************************************************************)
(* LambdaPackage.install                                                   *)
(***************************************************************************)
\* the command without the caller's arguments
InstallCmd_NoArgs == << "pip", "install", "-t", root_dir >>

InstallCmd == << "pip", "install", "-t", root_dir >> \o pip_args

Install ==
    /\ pc = "install"
    /\ check_output_calls' = Append(check_output_calls,
                                    [cmd |-> InstallCmd, stderr |-> "STDOUT"])
    /\ log' = Append(log, Info("command: %s, output:\n%s", << InstallCmd, "output" >>))
    /\ pc' = "to_zipfile"
    /\ UNCHANGED << args, root_dir, tempdir_exists, mkdtemp_calls,
                    rmtree_calls, rmtree_raised, init_calls, zip_calls, idx,
                    exc, outcome, split_result, argv, run_pc, ns, log_level,
                    open_calls, fileobj, create_calls, zip_closed,
                    run_outcome >>

\* create opening the archive before it installs: a failed install leaves an
\* opened archive behind
InstallFails_ArchiveOpened ==
    /\ pc = "install"
    /\ check_output_calls' = Append(check_output_calls,
                                    [cmd |-> InstallCmd, stderr |-> "STDOUT"])
    /\ exc' = "CalledProcessError"
    /\ init_calls' = init_calls + 1
    /\ pc' = "exit"
    /\ UNCHANGED << args, root_dir, tempdir_exists, mkdtemp_calls,
                    rmtree_calls, rmtree_raised, zip_calls, idx, outcome,
                    log, split_result, argv, run_pc, ns, log_level,
                    open_calls, fileobj, create_calls, zip_closed,
                    run_outcome >>

\* _check_output raises CalledProcessError
InstallFails ==
    /\ pc = "install"
    /\ check_output_calls' = Append(check_output_calls,
                                    [cmd |-> InstallCmd, stderr |-> "STDOUT"])
    /\ exc' = "CalledProcessError"
    /\ pc' = "exit"
    /\ UNCHANGED << args, root_dir, tempdir_exists, mkdtemp_calls,
                    rmtree_calls, rmtree_raised, init_calls, zip_calls, idx,
                    outcome, log, split_result, argv, run_pc, ns, log_level,
                    open_calls, fileobj, create_calls, zip_closed,
                    run_outcome >>

(***************************************************************************)
(* LambdaPackage.to_zipfile                                                *)
(***************************************************************************)
\* zip_obj = _ZipFile(fileobj, 'w')
ZipOpen ==
    /\ pc = "to_zipfile"
    /\ init_calls' = init_calls + 1
    /\ idx' = 1
    /\ pc' = "files"
    /\ UNCHANGED << args, root_dir, tempdir_exists, mkdtemp_calls,
                    rmtree_calls, rmtree_raised, check_output_calls,
                    zip_calls, exc, outcome, log, split_result, argv, run_pc,
                    ns, log_level, open_calls, fileobj, create_calls,
                    zip_closed, run_outcome >>

\* the file the loop is at
CurrentFile == files(root_dir, walk)[idx]

\* the records not_extension_module logs when it is the filter
FilterLog(filename) ==
    IF exclude_extension_modules /\ ~not_extension_module(filename)
    THEN << Info("Detected extension module: %s", <<filename>>) >>
    ELSE << >>

\* one iteration of the loop: the filter, then zip_obj.write
ZipFile ==
    /\ pc = "files"
    /\ idx <= Len(walk)
    /\ log' = log \o FilterLog(CurrentFile)
    /\ zip_calls' = IF Filter(exclude_extension_modules, CurrentFile)
                    THEN Append(zip_calls, file_entry(root_dir, CurrentFile))
                    ELSE zip_calls
    /\ idx' = idx + 1
    /\ UNCHANGED << args, pc, root_dir, tempdir_exists, mkdtemp_calls,
                    rmtree_calls, rmtree_raised, check_output_calls,
                    init_calls, exc, outcome, split_result, argv, run_pc, ns,
                    log_level, open_calls, fileobj, create_calls, zip_closed,
                    run_outcome >>

\* zip_obj.write raises (the file cannot be read, the sink cannot be written)
ZipFileFails ==
    /\ pc = "files"
    /\ idx <= Len(walk)
    /\ Filter(exclude_extension_modules, CurrentFile)
    /\ exc' = "IOError(write)"
    /\ pc' = "exit"
    /\ UNCHANGED << args, root_dir, tempdir_exists, mkdtemp_calls,
                    rmtree_calls, rmtree_raised, check_output_calls,
                    init_calls, zip_calls, idx, outcome, log, split_result,
                    argv, run_pc, ns, log_level, open_calls, fileobj,
                    create_calls, zip_closed, run_outcome >>

(***************************************************************************)
(* LambdaPackage.write_lambda_handler_to_fileobj, called when the loop ends *)
(***************************************************************************)
\* write_lambda_handler_to_fileobj putting the handler module in front of the
\* entries already written
WriteLambdaHandler_First ==
    /\ pc = "files"
    /\ idx > Len(walk)
    /\ ~split_fqpn_raises(fqpn)
    /\ split_result' = split_fqpn(fqpn)
    /\ zip_calls' = << handler_entry(fqpn) >> \o zip_calls
    /\ log' = Append(log, Info("FPQN for handler function %s now accessible as %s.%s",
                               << fqpn, fqpn_to_lambda_module_name(split_fqpn(fqpn)[1]),
                                  split_fqpn(fqpn)[2] >>))
    /\ pc' = "exit"
    /\ UNCHANGED << args, root_dir, tempdir_exists, mkdtemp_calls,
                    rmtree_calls, rmtree_raised, check_output_calls,
                    init_calls, idx, exc, outcome, argv, run_pc, ns,
                    log_level, open_calls, fileobj, create_calls, zip_closed,
                    run_outcome >>

WriteLambdaHandler ==
    /\ pc = "files"
    /\ idx > Len(walk)
    /\ ~split_fqpn_raises(fqpn)
    /\ split_result' = split_fqpn(fqpn)
    /\ zip_calls' = Append(zip_calls, handler_entry(fqpn))
    /\ log' = Append(log, Info("FPQN for handler function %s now accessible as %s.%s",
                               << fqpn, fqpn_to_lambda_module_name(split_fqpn(fqpn)[1]),
                                  split_fqpn(fqpn)[2] >>))
    /\ pc' = "exit"
    /\ UNCHANGED << args, root_dir, tempdir_exists, mkdtemp_calls,
                    rmtree_calls, rmtree_raised, check_output_calls,
                    init_calls, idx, exc, outcome, argv, run_pc, ns,
                    log_level, open_calls, fileobj, create_calls, zip_closed,
                    run_outcome >>

\* split_fqpn raises ValueError
WriteLambdaHandlerInvalidFqpn ==
    /\ pc = "files"
    /\ idx > Len(walk)
    /\ split_fqpn_raises(fqpn)
    /\ exc' = "ValueError"
    /\ pc' = "exit"
    /\ UNCHANGED << args, root_dir, tempdir_exists, mkdtemp_calls,
                    rmtree_calls, rmtree_raised, check_output_calls,
                    init_calls, zip_calls, idx, outcome, log, split_result,
                    argv, run_pc, ns, log_level, open_calls, fileobj,
                    create_calls, zip_closed, run_outcome >>

\* zip_obj.writestr raises
WriteLambdaHandlerFails ==
    /\ pc = "files"
    /\ idx > Len(walk)
    /\ ~split_fqpn_raises(fqpn)
    /\ split_result' = split_fqpn(fqpn)
    /\ exc' = "IOError(writestr)"
    /\ pc' = "exit"
    /\ UNCHANGED << args, root_dir, tempdir_exists, mkdtemp_calls,
                    rmtree_calls, rmtree_raised, check_output_calls,
                    init_calls, zip_calls, idx, outcome, log, argv, run_pc,
                    ns, log_level, open_calls, fileobj, create_calls,
                    zip_closed, run_outcome >>

(***************************************************************************)
(* Leaving the with statement                                              *)
(***************************************************************************)
\* what leaves the with statement when the manager's exit raises nothing
BodyOutcome == IF exc = "none" THEN "returned" ELSE exc

\* automatic_tempdir with the removal after the yield instead of in a finally
\* clause: an exception thrown into the generator skips it
AutomaticTempdirExit_NoFinally ==
    /\ pc = "exit"
    /\ root = None
    /\ IF exc = "none"
       THEN /\ log' = Append(log, Info("removing temporary directory %r", <<root_dir>>))
            /\ rmtree_calls' = Append(rmtree_calls, root_dir)
            /\ tempdir_exists' = FALSE
       ELSE UNCHANGED << log, rmtree_calls, tempdir_exists >>
    /\ outcome' = BodyOutcome
    /\ pc' = "done"
    /\ UNCHANGED << args, rmtree_raised, root_dir, mkdtemp_calls,
                    check_output_calls, init_calls, zip_calls, idx, exc,
                    split_result, argv, run_pc, ns, log_level, open_calls,
                    fileobj, create_calls, zip_closed, run_outcome >>

\* automatic_tempdir after its yield: the finally clause, _rmtree succeeds
AutomaticTempdirExit ==
    /\ pc = "exit"
    /\ root = None
    /\ log' = Append(log, Info("removing temporary directory %r", <<root_dir>>))
    /\ rmtree_calls' = Append(rmtree_calls, root_dir)
    /\ UNCHANGED rmtree_raised
    /\ tempdir_exists' = FALSE
    /\ outcome' = BodyOutcome
    /\ pc' = "done"
    /\ UNCHANGED << args, root_dir, mkdtemp_calls, check_output_calls,
                    init_calls, zip_calls, idx, exc, split_result, argv,
                    run_pc, ns, log_level, open_calls, fileobj, create_calls,
                    zip_closed, run_outcome >>

\* the finally clause when _rmtree raises: its error replaces whatever was
\* leaving the with body
RmtreeFails ==
    /\ pc = "exit"
    /\ root = None
    /\ log' = Append(log, Info("removing temporary directory %r", <<root_dir>>))
    /\ rmtree_calls' = Append(rmtree_calls, root_dir)
    /\ rmtree_raised' = TRUE
    /\ outcome' = "OSError(rmtree)"
    /\ pc' = "done"
    /\ UNCHANGED << args, root_dir, tempdir_exists, mkdtemp_calls,
                    check_output_calls, init_calls, zip_calls, idx, exc,
                    split_result, argv, run_pc, ns, log_level, open_calls,
                    fileobj, create_calls, zip_closed, run_outcome >>

\* passthrough after its yield: nothing to do
PassthroughExit ==
    /\ pc = "exit"
    /\ root # None
    /\ outcome' = BodyOutcome
    /\ pc' = "done"
    /\ UNCHANGED << args, root_dir, tempdir_exists, mkdtemp_calls,
                    rmtree_calls, rmtree_raised, check_output_calls,
                    init_calls, zip_calls, idx, exc, log, split_result, argv,
                    run_pc, ns, log_level, open_calls, fileobj, create_calls,
                    zip_closed, run_outcome >>

(***************************************************************************)
(* betareduce._cli.run                                                     *)
(***************************************************************************)

\* args = parser.parse_args(_argv); logging.basicConfig(level=level)
RunParse ==
    /\ run_pc = "parse"
    /\ ~parse_args(argv).error
    /\ ns' = << parse_args(argv) >>
    /\ log_level' = IF parse_args(argv).quiet THEN "ERROR" ELSE "DEBUG"
    /\ run_pc' = "open"
    /\ UNCHANGED << root, fqpn, pip_args, exclude_extension_modules, walk,
                    pc, root_dir, tempdir_exists, mkdtemp_calls,
                    rmtree_calls, rmtree_raised, check_output_calls,
                    init_calls, zip_calls, idx, exc, outcome, log,
                    split_result, argv, open_calls, fileobj, create_calls,
                    zip_closed, run_outcome >>

\* parser.parse_args reports the error and raises SystemExit(2)
RunParseFails ==
    /\ run_pc = "parse"
    /\ parse_args(argv).error
    /\ run_outcome' = "SystemExit(2)"
    /\ run_pc' = "exited"
    /\ UNCHANGED << root, fqpn, pip_args, exclude_extension_modules, walk,
                    pc, root_dir, tempdir_exists, mkdtemp_calls,
                    rmtree_calls, rmtree_raised, check_output_calls,
                    init_calls, zip_calls, idx, exc, outcome, log,
                    split_result, argv, ns, log_level, open_calls, fileobj,
                    create_calls, zip_closed >>

\* with _open(args.outfile, 'wb') as fileobj
RunOpen ==
    /\ run_pc = "open"
    /\ open_calls' = Append(open_calls, [path |-> ns[1].outfile, mode |-> "wb"])
    /\ fileobj' = "open"
    /\ run_pc' = "call"
    /\ UNCHANGED << root, fqpn, pip_args, exclude_extension_modules, walk,
                    pc, root_dir, tempdir_exists, mkdtemp_calls,
                    rmtree_calls, rmtree_raised, check_output_calls,
                    init_calls, zip_calls, idx, exc, outcome, log,
                    split_result, argv, ns, log_level, create_calls,
                    zip_closed, run_outcome >>

\* _open raises: the with body never runs
RunOpenFails ==
    /\ run_pc = "open"
    /\ open_calls' = Append(open_calls, [path |-> ns[1].outfile, mode |-> "wb"])
    /\ run_outcome' = "IOError(open)"
    /\ run_pc' = "exited"
    /\ UNCHANGED << root, fqpn, pip_args, exclude_extension_modules, walk,
                    pc, root_dir, tempdir_exists, mkdtemp_calls,
                    rmtree_calls, rmtree_raised, check_output_calls,
                    init_calls, zip_calls, idx, exc, outcome, log,
                    split_result, argv, ns, log_level, fileobj, create_calls,
                    zip_closed >>

\* the arguments run gives _create
CreateArgs_NoNegation ==
    [fileobj |-> "fileobj", pip_args |-> ns[1].requirements, fqpn |-> ns[1].fqpn,
     root |-> ns[1].staging_directory,
     exclude_extension_modules |-> ns[1].allow_extensions]

CreateArgs ==
    [fileobj |-> "fileobj", pip_args |-> ns[1].requirements, fqpn |-> ns[1].fqpn,
     root |-> ns[1].staging_directory,
     exclude_extension_modules |-> ~ns[1].allow_extensions]

\* _create(fileobj, args.requirements, fqpn=..., root=..., exclude_extension_modules=...)
RunCreate ==
    /\ run_pc = "call"
    /\ create_calls' = Append(create_calls, CreateArgs)
    /\ pip_args' = CreateArgs.pip_args
    /\ fqpn' = CreateArgs.fqpn
    /\ root' = CreateArgs.root
    /\ exclude_extension_modules' = CreateArgs.exclude_extension_modules
    /\ pc' = "create"
    /\ run_pc' = "create"
    /\ UNCHANGED << walk, root_dir, tempdir_exists, mkdtemp_calls,
                    rmtree_calls, rmtree_raised, check_output_calls,
                    init_calls, zip_calls, idx, exc, outcome, log,
                    split_result, argv, ns, log_level, open_calls, fileobj,
                    zip_closed, run_outcome >>

\* create has returned or raised: leaving the with statement closes fileobj;
\* the ZipFile create returned is discarded, and an exception propagates
RunExit ==
    /\ run_pc = "create"
    /\ pc = "done"
    /\ fileobj' = "closed"
    /\ run_outcome' = outcome
    /\ run_pc' = "exited"
    /\ UNCHANGED << root, fqpn, pip_args, exclude_extension_modules, walk,
                    pc, root_dir, tempdir_exists, mkdtemp_calls,
                    rmtree_calls, rmtree_raised, check_output_calls,
                    init_calls, zip_calls, idx, exc, outcome, log,
                    split_result, argv, ns, log_level, open_calls,
                    create_calls, zip_closed >>

\* Nothing calls zip_obj.close().  The interpreter finalizes the discarded
\* ZipFile at a time of its choosing, or never: ZipFile.__del__ calls close(),
\* which writes the central directory if fileobj is still open and fails,
\* silently, if fileobj is closed already.
ZipDel ==
    /\ run_pc \in {"create", "exited"}
    /\ pc = "done"
    /\ init_calls > 0
    /\ zip_closed = "no"
    /\ zip_closed' = IF fileobj = "open" THEN "yes" ELSE "failed"
    /\ UNCHANGED << root, fqpn, pip_args, exclude_extension_modules, walk,
                    pc, root_dir, tempdir_exists, mkdtemp_calls,
                    rmtree_calls, rmtree_raised, check_output_calls,
                    init_calls, zip_calls, idx, exc, outcome, log,
                    split_result, argv, run_pc, ns, log_level, open_calls,
                    fileobj, create_calls, run_outcome >>

Next ==
    \/ AutomaticTempdirEnter
    \/ MkdtempFails
    \/ PassthroughEnter
    \/ Install
    \/ InstallFails
    \/ ZipOpen
    \/ ZipFile
    \/ ZipFileFails
    \/ WriteLambdaHandler
    \/ WriteLambdaHandlerInvalidFqpn
    \/ WriteLambdaHandlerFails
    \/ AutomaticTempdirExit
    \/ RmtreeFails
    \/ PassthroughExit
    \/ RunParse
    \/ RunParseFails
    \/ RunOpen
    \/ RunOpenFails
    \/ RunCreate
    \/ RunExit
    \/ ZipDel

Spec == Init /\ [][Next]_vars

TypeOK ==
    /\ pc \in {"idle", "create", "install", "to_zipfile", "files", "exit", "done"}
    /\ run_pc \in {"api", "parse", "open", "call", "create", "exited"}
    /\ fileobj \in {"unopened", "open", "closed"}
    /\ zip_closed \in {"no", "yes", "failed"}
    /\ log_level \in {"unset", "DEBUG", "ERROR"}
    /\ mkdtemp_calls \in 0..1
    /\ idx \in 0..(Len(walk) + 1)

(***************************************************************************)
(* Properties                                                              *)
(***************************************************************************)
\* create has handed its result or its error to the caller
Done == pc = "done"

\* the build got as far as the with body: the root manager was entered
Entered == pc \notin {"idle", "create"} /\ outcome # "OSError(mkdtemp)"

\* C1: when create is called without a root, on every way out of the build
\* (normal return, install failure, invalid FQPN, failure while writing the
\* archive) _mkdtemp has been called exactly once and _rmtree exactly once, on
\* the directory _mkdtemp returned, by the time the caller gets the result or
\* the error; unless _rmtree itself raised, the directory is gone.
C1_TempdirCreatedOnceDeletedOnce ==
    (Done /\ root = None /\ Entered) =>
        /\ mkdtemp_calls = 1
        /\ rmtree_calls = << TempDir >>
        /\ (~rmtree_raised => ~tempdir_exists)

\* a build without a root that failed while writing a staged file and whose
\* temporary directory was removed before the error reached the caller
C1_Witness ==
    /\ Done /\ root = None
    /\ exc = "IOError(write)" /\ outcome = "IOError(write)"
    /\ rmtree_calls = << TempDir >> /\ ~tempdir_exists

\* C2: with a caller-supplied root no temporary directory is ever created, the
\* package is built on exactly the supplied path (install targets it, the
\* staged files are read under it), and _rmtree is never called, whatever
\* the build's outcome.
C2_CallerRootUntouched ==
    root # None =>
        /\ mkdtemp_calls = 0
        /\ ~tempdir_exists
        /\ rmtree_calls = << >>
        /\ (pc \notin {"idle", "create"} => root_dir = root)
        /\ \A i \in 1..Len(check_output_calls) : check_output_calls[i].cmd[4] = root
        /\ \A i \in 1..Len(zip_calls) :
               zip_calls[i].call = "write" => StartsWith(zip_calls[i].filename, root)

\* a failed build on a caller's root whose path is not in normal form
C2_Witness ==
    /\ Done /\ root = << ".", "/", "r" >>
    /\ outcome = "ValueError"
    /\ Len(check_output_calls) = 1
    /\ \E i \in 1..Len(zip_calls) : zip_calls[i].call = "write"

\* C3: when FQPN validation fails, no entry has been written to the archive
\* at the moment the ValueError is raised.
C3_InvalidFqpnBeforeAnyEntry ==
    exc = "ValueError" => zip_calls = << >>

\* C4: when the installer fails, the caller of create gets the installer's
\* error, and a temporary directory the build owns has been removed.
C4_InstallErrorPropagates ==
    (Done /\ exc = "CalledProcessError") =>
        /\ outcome = "CalledProcessError"
        /\ (root = None => ~tempdir_exists)

\* C5: when _rmtree raises during cleanup while a build error is propagating,
\* the caller of create gets the build error, not the deletion error.
C5_RmtreeFailureDoesNotMask ==
    (Done /\ rmtree_raised /\ exc # "none") => outcome = exc

\* to_zipfile was called and has returned its ZipFile
ToZipfileReturned == pc \in {"exit", "done"} /\ init_calls > 0 /\ exc = "none"

\* the enumerated files the filter accepts, in enumeration order
Accepted ==
    SelectSeq(files(root_dir, walk), LAMBDA f : Filter(exclude_extension_modules, f))

\* C6: a to_zipfile that returns has made exactly (number of accepted files)
\* + 1 writes: the accepted files once each in enumeration order, then one
\* handler module, last; with nothing staged the handler module is the only
\* entry.
C6_AcceptedFilesThenOneShim ==
    ToZipfileReturned =>
        /\ Len(zip_calls) = Len(Accepted) + 1
        /\ \A i \in 1..Len(Accepted) :
               /\ zip_calls[i].call = "write"
               /\ zip_calls[i].filename = Accepted[i]
        /\ zip_calls[Len(zip_calls)].call = "writestr"
        /\ (walk = << >> => Len(zip_calls) = 1)

\* a finished build with two staged files of which the filter dropped one
C6_Witness ==
    /\ Done /\ outcome = "returned"
    /\ Len(walk) = 2 /\ Len(Accepted) = 1
    /\ Len(zip_calls) = 2

\* filename was given to zip_obj.write
Written(filename) ==
    \E k \in 1..Len(zip_calls) :
        zip_calls[k].call = "write" /\ zip_calls[k].filename = filename

\* the last path component has no dot
NoSuffix(filename) ==
    \A i \in 1..Len(filename) :
        filename[i] = "." => \E j \in (i + 1)..Len(filename) : filename[j] = "/"

\* C7: with exclude_extension_modules a staged file is written iff its path
\* ends with none of the native-extension suffixes, and files ending in .py
\* or .pyc or without a suffix are kept; without it every staged file is
\* written.
C7_ExtensionModulesExcluded ==
    ToZipfileReturned =>
        \A i \in 1..Len(walk) :
            LET f == files(root_dir, walk)[i]
            IN  /\ exclude_extension_modules =>
                       (Written(f) <=> ~(\E suf \in BINARY_SUFFIXES : EndsWith(f, suf)))
                /\ (\/ EndsWith(f, << ".", "p", "y" >>)
                    \/ EndsWith(f, << ".", "p", "y", "c" >>)
                    \/ NoSuffix(f)) => Written(f)
                /\ ~exclude_extension_modules => Written(f)

\* a default build over an extension module and a file named "so": the first
\* is dropped, the second kept
C7_Witness ==
    /\ Done /\ outcome = "returned" /\ exclude_extension_modules
    /\ Len(walk) = 2
    /\ Written(files(root_dir, walk)[1])
    /\ EndsWith(files(root_dir, walk)[1], << "/", "s", "o" >>)
    /\ ~Written(files(root_dir, walk)[2])

\* the writestr calls made on zip_obj
Shims == { k \in 1..Len(zip_calls) : zip_calls[k].call = "writestr" }

\* the mode the tests expect on the handler module: readable by all, nothing else
ReadOnlyMode == 292

\* C8: the handler module is written with external attributes 0444 << 16.
C8_ShimReadOnly ==
    \A k \in Shims : zip_calls[k].zinfo.external_attr = ReadOnlyMode * 65536

\* index of the last dot of the fqpn argument
LastDot == CHOOSE i \in 1..Len(fqpn) : fqpn[i] = "." /\ \A j \in (i + 1)..Len(fqpn) : fqpn[j] # "."

C10_ShimNamedLambdaEntry ==
    \A k \in Shims :
        zip_calls[k].zinfo.filename =
            << "l", "a", "m", "b", "d", "a", "_", "e", "n", "t", "r", "y", ".", "p", "y" >>

\* C11: the handler module's member name is never the member name of a staged
\* file written in the same build.
C11_ShimNameNeverCollides ==
    \A k \in Shims : \A j \in 1..Len(zip_calls) :
        zip_calls[j].call = "write"
            => zip_calls[j].arcname # zip_calls[k].zinfo.filename

\* write_lambda_handler_to_fileobj was called and has returned or raised
HandlerCalled == pc \in {"exit", "done"} /\ idx > Len(walk)

\* the dot-separated components of the fqpn argument
Components == Split(fqpn, ".")

\* m1.m2....mk.c with k >= 1 and no empty component
WellFormedFqpn ==
    /\ Len(Components) >= 2
    /\ \A i \in 1..Len(Components) : Components[i] # << >>

\* C12: for a well-formed FQPN split_fqpn returns ("m1.m2....mk", "c"): the
\* callable name is the last component and has no dot, the module path is
\* the others joined by dots, and module + "." + callable is the input.
C12_SplitOnLastDot ==
    (HandlerCalled /\ WellFormedFqpn) =>
        /\ exc # "ValueError"
        /\ Len(split_result) = 2
        /\ split_result[1] = Join(SubSeq(Components, 1, Len(Components) - 1), ".")
        /\ split_result[2] = Components[Len(Components)]
        /\ \A i \in 1..Len(split_result[2]) : split_result[2][i] # "."
        /\ split_result[1] \o << "." >> \o split_result[2] = fqpn

\* a build that split a three-component FQPN
C12_Witness ==
    /\ Done
    /\ fqpn = << "a", ".", "a", ".", "a" >>
    /\ split_result = << << "a", ".", "a" >>, << "a" >> >>

\* the fqpn argument is empty, starts or ends with a dot, or has no dot
MalformedFqpn ==
    \/ fqpn = << >>
    \/ fqpn[1] = "."
    \/ fqpn[Len(fqpn)] = "."
    \/ \A i \in 1..Len(fqpn) : fqpn[i] # "."

\* C13: for an FQPN that is empty, starts with a dot, ends with a dot or has
\* no dot, split_fqpn raises ValueError and returns nothing.
C13_MalformedFqpnRaises ==
    (HandlerCalled /\ MalformedFqpn) =>
        /\ exc = "ValueError"
        /\ split_result = << >>
        /\ Shims = {}

\* a build on a caller's root that failed on an FQPN with a leading dot only
C13_Witness ==
    /\ Done /\ root # None
    /\ fqpn = << ".", "a", ".", "a" >>
    /\ outcome = "ValueError"

\* C14: relativize_path(p) of a path p that starts with the root r is p
\* without one leading r and without one following separator, and normalising
\* it again changes nothing; a path that does not start with r is returned
\* normalised and otherwise unchanged.
C14_RelativizeStripsRoot ==
    \A k \in 1..Len(zip_calls) :
        zip_calls[k].call = "write" =>
            LET p == zip_calls[k].filename
                rest == SubSeq(p, Len(root_dir) + 1, Len(p))
                stripped == IF StartsWith(rest, << "/" >>) THEN Tail(rest) ELSE rest
            IN  /\ StartsWith(p, root_dir) => zip_calls[k].arcname = normpath(stripped)
                /\ normpath(zip_calls[k].arcname) = zip_calls[k].arcname
                /\ ~StartsWith(p, root_dir) => zip_calls[k].arcname = normpath(p)

C18_MemberNameRelativeToRoot ==
    \A k \in 1..Len(zip_calls) :
        zip_calls[k].call = "write" =>
            \E i \in 1..Len(walk) :
                /\ files(root_dir, walk)[i] = zip_calls[k].filename
                /\ zip_calls[k].arcname =
                       IF walk[i].dir = << >> THEN walk[i].name
                       ELSE walk[i].dir \o << "/" >> \o walk[i].name

\* the records install gave to the logger
InstallRecords == SelectSeq(log, LAMBDA r : r.msg = "command: %s, output:\n%s")

\* install was called and has returned or raised
InstallCalled == pc \notin {"idle", "create", "install"} /\ outcome # "OSError(mkdtemp)"

\* C19: install calls the installer exactly once, with ['pip', 'install',
\* '-t', root] followed by the arguments in order and stderr sent to stdout;
\* when the installer succeeds it logs exactly one record with the command
\* and the output, when the installer fails it logs nothing and the
\* installer's error leaves install.
C19_InstallRunsPipOnce ==
    /\ ~InstallCalled => (check_output_calls = << >> /\ InstallRecords = << >>)
    /\ InstallCalled =>
        /\ check_output_calls =
               << [cmd |-> << "pip", "install", "-t", root_dir >> \o pip_args,
                   stderr |-> "STDOUT"] >>
        /\ IF exc = "CalledProcessError"
           THEN InstallRecords = << >> /\ pc \in {"exit", "done"}
           ELSE InstallRecords =
                    << Info("command: %s, output:\n%s",
                            << << "pip", "install", "-t", root_dir >> \o pip_args,
                               "output" >>) >>

\* install has just returned from a run of pip with two requirements
C19_Witness ==
    /\ pc = "to_zipfile"
    /\ Len(pip_args) = 2
    /\ Len(check_output_calls) = 1 /\ Len(check_output_calls[1].cmd) = 6
    /\ Len(InstallRecords) = 1

\* C20: the archive is opened only after install has returned: when install
\* fails, or the temporary directory cannot be created, no archive was opened
\* and nothing was written to the sink.
C20_ArchiveOpenedAfterInstall ==
    /\ (exc = "CalledProcessError" \/ outcome = "OSError(mkdtemp)")
           => (init_calls = 0 /\ zip_calls = << >>)
    /\ init_calls > 0 => Len(InstallRecords) = 1
    /\ init_calls = 0 => zip_calls = << >>

\* a build with staged files whose install failed: nothing was opened
C20_Witness ==
    /\ Done /\ exc = "CalledProcessError"
    /\ walk # << >>
    /\ init_calls = 0 /\ zip_calls = << >>

\* --- run: what the command line says, read off the tokens themselves ---

\* positions of the tokens that are neither options nor the argument of -d
WordPositions ==
    { i \in 1..Len(argv) :
        /\ ~IsOptionString(argv[i])
        /\ ~(i > 1 /\ argv[i - 1] \in STAGING_DIRECTORY) }

\* position of the k-th such token
WordPosition(k) ==
    CHOOSE i \in WordPositions : Cardinality({ j \in WordPositions : j < i }) = k - 1

GivenWords == [k \in 1..Cardinality(WordPositions) |-> argv[WordPosition(k)]]

\* positions of -d/--staging-directory
StagingPositions == { i \in 1..Len(argv) : argv[i] \in STAGING_DIRECTORY }

GivenStagingDirectory ==
    IF StagingPositions = {} THEN None
    ELSE argv[1 + CHOOSE i \in StagingPositions : \A j \in StagingPositions : j <= i]

AllowExtensionsGiven == \E i \in 1..Len(argv) : argv[i] \in ALLOW_EXTENSIONS

\* <outfile> <fqpn> <requirement>+ with optional flags: every option is one
\* the parser declares, -d has its argument, and the requirements stand
\* together
UsageForm ==
    /\ Cardinality(WordPositions) >= 3
    /\ \A i \in 1..Len(argv) :
          IsOptionString(argv[i]) =>
              argv[i] \in STAGING_DIRECTORY \cup ALLOW_EXTENSIONS \cup QUIET
    /\ \A i \in StagingPositions : i < Len(argv) /\ ~IsOptionString(argv[i + 1])
    /\ WordPosition(Cardinality(WordPositions)) - WordPosition(3)
          = Cardinality(WordPositions) - 3

\* run is inside or past its with statement
WithEntered == run_pc \in {"create", "exited"} /\ fileobj # "unopened"

\* C15: on a successful CLI run the steps happen in the order staging
\* directory resolved, dependencies installed, staged files written, shim
\* written, archive closed, staging directory released if owned; and run
\* returns only after the archive has been closed and the output file closed.
C15_RunStepsInOrder ==
    (run_pc # "api" /\ exc = "none") =>
        /\ check_output_calls # << >> => root_dir # None
        /\ init_calls > 0 => Len(InstallRecords) = 1
        /\ \A k \in Shims : k = Len(zip_calls) /\ idx > Len(walk)
        /\ zip_closed = "yes" => Shims # {}
        /\ rmtree_calls # << >> => zip_closed = "yes"
        /\ (run_pc = "exited" /\ run_outcome = "returned") =>
               zip_closed = "yes" /\ fileobj = "closed"

====
